---- MODULE Spec2Model ----
(***************************************************************************)
(* Model of simetrio_tui.py (SimetrioApp)        : the menu / Run Selected *)
(* handler, the primary worker thread, the dependency flow thread, the two *)
(* confirmation latches and the bounded log buffer.                        *)
(*                                                                         *)
(* Threads.  The UI thread runs on_button_pressed handlers atomically.     *)
(* Every background thread (a _worker or an action_deps_flow) is a record  *)
(* with a program counter; one action of the model is one stretch of the   *)
(* thread's code between two points where the UI thread can interleave     *)
(* (a call_from_thread hand-off, a Popen, a read from the child's pipe).   *)
(* A call_from_thread(self._append_log, x) is executed by the UI thread as *)
(* one atomic append.                                                      *)
(*                                                                         *)
(* Environment.  The places where the repository's scripts exist are fixed *)
(* when the program starts; a Popen may fail to launch; a child prints at  *)
(* most MaxOut lines (MaxWorkerOut for the child of a primary worker) and  *)
(* exits with a code in ExitCodes.                                         *)
(*                                                                         *)
(* Specifications.  Spec is the menu, Run Selected and the primary worker; *)
(* SpecLive is Spec with a fair scheduler; SpecGate is the Deps action with*)
(* its toggles; SpecFlow is the dependency flow; SpecLog is the log buffer *)
(* alone.  They share the actions below and differ in which of them the    *)
(* user and the scheduler take.                                            *)
(***************************************************************************)
EXTENDS Integers, Sequences, FiniteSets, TLC

VARIABLES
    action,                \* self.action ("none" while the attribute is unset)
    form,                  \* the widgets' values: Input.value / Checkbox.value
    running,               \* SimetrioApp.running
    elevate_pending,       \* SimetrioApp._elevate_pending
    pkg_install_pending,   \* SimetrioApp._pkg_install_pending
    log_buffer,            \* self._log_buffer
    workers,               \* the live _worker threads
    flows,                 \* the live action_deps_flow threads
    spawned,               \* number of child processes launched so far
    uncaught,              \* exceptions that ended a thread without being caught
    limit,                 \* the user presses buttons while the log is shorter
    SCRIPTS_DIR,           \* module constant SCRIPTS_DIR, fixed at import
    files,                 \* the places where the repository's scripts exist
    appended,              \* every line ever appended to _log_buffer, in order
                           \* (recorded in SpecLog only)
    system,                \* platform.system(), fixed while the program runs
    exports,               \* what _copy_log_to_clipboard has delivered so far
    sections,              \* the `visible` flag of the three option sections
    direct_appends,        \* number of _append_log calls that a background
                           \* thread executed itself
    ui_pc                  \* "idle" between two handlers of the UI thread;
                           \* "evict" inside _append_log, between append
                           \* and the test of the cap (SpecThreads only)

vars == <<action, form, running, elevate_pending, pkg_install_pending,
          log_buffer, workers, flows, spawned, uncaught, limit, SCRIPTS_DIR,
          files, appended, system, exports,
                   sections, direct_appends, ui_pc>>

----------------------------------------------------------------------------
(* Bounds *)

MaxLog == 3
MaxGateLog == 4
MaxFlowLog == 6
MaxOut == 1

(* Output lines of the child of a primary worker *)
MaxWorkerOut == 2

(* Program constants *)

LogCap == 5000

----------------------------------------------------------------------------
(* Values *)

Actions == {"build", "novnc", "clean", "stop", "check", "deps"}

NL == "\n"

ExitCodes == {0, 1}

Locations == {"bin", "scripts", "root"}

InstNameValues == {"", " ", "img"}

ToggleFields == {"install_python", "install_system", "elevate"}

Markers == {"Missing Python packages", "Found Multipass PKG",
            "Multipass PKG present", "Missing binaries"}

sys_executable == "python3"

----------------------------------------------------------------------------
(* Strings.  A text is a sequence of units: NL or a newline-free chunk.    *)

Txt(s) == IF s = "" THEN <<>> ELSE <<s>>

(* The value used as it is *)
strip_None(s) == s

strip(s) == IF s = " " THEN "" ELSE s

RECURSIVE join(_, _)
join(sep, xs) ==
    IF xs = <<>> THEN ""
    ELSE IF Len(xs) = 1 THEN xs[1]
    ELSE xs[1] \o sep \o join(sep, Tail(xs))

RECURSIVE splitFrom(_, _, _, _)
splitFrom(text, i, cur, open) ==
    IF i > Len(text) THEN (IF open THEN <<cur>> ELSE <<>>)
    ELSE IF text[i] = NL THEN <<cur>> \o splitFrom(text, i + 1, "", FALSE)
    ELSE splitFrom(text, i + 1, cur \o text[i], TRUE)

splitlines(text) == splitFrom(text, 1, "", FALSE)

str_rc(rc) == IF rc = 0 THEN "0" ELSE "1"

str_bool(b) == IF b THEN "True" ELSE "False"

----------------------------------------------------------------------------
(* The k-th line a child process prints, as read from its pipe, and       *)
(* line.rstrip()                                                           *)
ChildLine(k) == IF k = 1 THEN "line 1" ELSE IF k = 2 THEN "line 2" ELSE "line n"

----------------------------------------------------------------------------
(* Log buffer *)

(* pop() in place of pop(0): the newest line is the one evicted *)
RECURSIVE append_lines_PopLast(_, _)
append_lines_PopLast(buf, lines) ==
    IF lines = <<>> THEN buf
    ELSE LET b1 == Append(buf, Head(lines))
             b2 == IF Len(b1) > LogCap THEN SubSeq(b1, 1, Len(b1) - 1) ELSE b1
         IN  append_lines_PopLast(b2, Tail(lines))

RECURSIVE append_lines(_, _)
append_lines(buf, lines) ==
    IF lines = <<>> THEN buf
    ELSE LET b1 == Append(buf, Head(lines))
             b2 == IF Len(b1) > LogCap THEN Tail(b1) ELSE b1
         IN  append_lines(b2, Tail(lines))

(* insert(0, line) in place of append(line): the newest text comes first *)
append_log_Prepend(buf, text) ==
    LET ls == splitlines(text)
    IN  (IF ls = <<>> THEN <<"">> ELSE ls) \o buf

append_log(buf, text) ==
    LET ls == splitlines(text)
    IN  append_lines(buf, IF ls = <<>> THEN <<"">> ELSE ls)

Logged(s) == log_buffer' = append_log(log_buffer, Txt(s))

----------------------------------------------------------------------------
(* Script resolution *)

script_path(name, fs) ==
    IF SCRIPTS_DIR \in fs THEN [ok |-> TRUE, path |-> SCRIPTS_DIR \o "/" \o name]
    ELSE IF "root" \in fs THEN [ok |-> TRUE, path |-> name]
    ELSE [ok |-> FALSE,
          path |-> "Required script not found: " \o SCRIPTS_DIR \o "/" \o name
                   \o " or " \o name]

----------------------------------------------------------------------------
(* Parameter snapshot *)

orDefault(s, d) == IF strip(s) = "" THEN d ELSE strip(s)

gather_params ==
    [name |-> orDefault(form.inst_name, "stralyx"),
     mem |-> orDefault(form.mem, "4G"),
     cpus |-> orDefault(form.cpus, "2"),
     disk |-> orDefault(form.disk, "20G"),
     kde |-> form.kde,
     calamares |-> form.calamares,
     install_python |-> form.install_python,
     install_system |-> form.install_system,
     elevate |-> form.elevate]

----------------------------------------------------------------------------
(* Command builder of _worker: the result is a record whose kind is        *)
(* "cmd" (with the argument list), "missing" (empty image path),           *)
(* "unknown" (no such action) or "error" (script_path raised).             *)

ScriptOf(act) ==
    CASE act = "build" -> "multipass-run.sh"
      [] act = "novnc" -> "novnc-run.sh"
      [] act = "clean" -> "clean-build.sh"
      [] act = "stop" -> "stop-novnc.sh"
      [] OTHER -> "simetrio"

(* The flag appended whatever the toggle *)
Opt_Always(b, flag) == <<flag>>

Opt(b, flag) == IF b THEN <<flag>> ELSE <<>>

build_cmd(act, params, img, fs) ==
    LET sp == script_path(ScriptOf(act), fs)
        Cmd(args) == IF sp.ok THEN [kind |-> "cmd", cmd |-> args]
                     ELSE [kind |-> "error", cmd |-> <<sp.path>>]
    IN  CASE act = "build" ->
               Cmd(<<sp.path, "--name", params.name, "--mem", params.mem,
                     "--cpus", params.cpus, "--disk", params.disk>>
                   \o Opt(params.kde, "--with-kde")
                   \o Opt(params.calamares, "--with-calamares"))
          [] act = "novnc" ->
               IF strip(img) = "" THEN [kind |-> "missing", cmd |-> <<>>]
               ELSE Cmd(<<sp.path, strip(img)>>)
          [] act = "clean" ->
               Cmd(<<sp.path, "--yes", "--remove-instance",
                     "--instance-name", params.name>>)
          [] act = "stop" -> Cmd(<<sp.path>>)
          [] act = "check" -> Cmd(<<sys_executable, sp.path, "check">>)
          [] act = "deps" ->
               Cmd(<<sys_executable, sp.path, "deps">>
                   \o Opt(params.install_python, "--install-python")
                   \o Opt(params.install_system, "--install-binaries")
                   \o Opt(params.elevate, "--elevate"))
          [] OTHER -> [kind |-> "unknown", cmd |-> <<>>]

----------------------------------------------------------------------------
(* Initial state: a freshly constructed SimetrioApp *)

InitOn(b, layouts, systems) ==
    /\ action = "none"
    /\ form = [inst_name |-> "", mem |-> "", cpus |-> "", disk |-> "",
               kde |-> FALSE, calamares |-> FALSE, install_python |-> FALSE,
               install_system |-> FALSE, elevate |-> FALSE]
    /\ running = FALSE
    /\ elevate_pending = FALSE
    /\ pkg_install_pending = FALSE
    /\ log_buffer = <<>>
    /\ workers = <<>>
    /\ flows = <<>>
    /\ spawned = 0
    /\ uncaught = 0
    /\ limit = b
    /\ appended = <<>>
    /\ system \in systems
    /\ exports = <<>>
    /\ sections = [section_optional |-> FALSE, section_python |-> FALSE,
                   section_system |-> FALSE]
    /\ direct_appends = 0
    /\ ui_pc = "idle"
    /\ \E l \in layouts :
         /\ SCRIPTS_DIR = l.dir
         /\ files = l.files

InitWith(b, layouts) == InitOn(b, layouts, {"Linux"})

(* Repository layouts: find_repo_root and lines 51-56 choose SCRIPTS_DIR   *)
(* ('bin' when that directory exists), and the scripts exist in some of    *)
(* the three places                                                        *)
Layouts ==
    {[dir |-> IF bin_exists THEN "bin" ELSE "scripts", files |-> fs] :
        bin_exists \in BOOLEAN, fs \in SUBSET Locations}
    \ {l \in [dir : {"scripts"}, files : SUBSET Locations] : "bin" \in l.files}

(* The layouts without a bin directory *)
ScriptsLayouts == {l \in Layouts : l.dir = "scripts" /\ Cardinality(l.files) <= 1}

Init == InitWith(MaxLog, ScriptsLayouts)

InitGate == InitWith(MaxGateLog, ScriptsLayouts)

----------------------------------------------------------------------------
(* Thread bookkeeping *)

RemoveAt(seq, i) == SubSeq(seq, 1, i - 1) \o SubSeq(seq, i + 1, Len(seq))

NewWorker(act, params, confirmed) ==
    [pc |-> "build", action |-> act, params |-> params, cmd |-> <<>>,
     msg |-> "", nout |-> 0, nspawn |-> 0, confirmed |-> confirmed]

NewFlow ==
    [pc |-> "start", stage |-> "check", branch |-> "none", out |-> {},
     nout |-> 0, elevate |-> FALSE, install_system |-> FALSE, ran |-> <<>>,
     rcs |-> <<>>, saw_pending |-> FALSE, confirmed |-> FALSE]

----------------------------------------------------------------------------
(* on_button_pressed: the menu buttons (lines 183-196) *)

PressMenu(b) ==
    /\ Len(log_buffer) < limit
    /\ action' = b
    /\ Logged("Selected action: " \o b)
    /\ form' = IF b = "novnc" THEN [form EXCEPT !.inst_name = ""] ELSE form
    /\ flows' = IF b = "deps" THEN Append(flows, NewFlow) ELSE flows
    /\ UNCHANGED <<running, elevate_pending, pkg_install_pending, workers,
                   spawned, uncaught, limit, SCRIPTS_DIR, files, appended, system, exports,
                   sections, direct_appends, ui_pc>>

(* on_button_pressed: 'run_selected' (lines 215-235), _run_action inlined *)

(* A handler without the test of line 224 *)
NeedsElevation_Never(act, params) == FALSE

(* The test of line 224 without `action == 'deps'` *)
NeedsElevation_AnyAction(act, params) ==
    (params.install_python \/ params.install_system) /\ params.elevate

NeedsElevation(act, params) ==
    act = "deps" /\ (params.install_python \/ params.install_system)
                 /\ params.elevate

(* _run_action without its test of self.running *)
RunBlocked_Never == FALSE

(* One lock for the worker and the dependency flow *)
RunBlocked_OrFlow == running \/ flows # <<>>

RunBlocked == running

(* A handler that leaves the latch set *)
PendingAfterConfirm_Kept == elevate_pending

(* line 232: the confirmed request resets the latch *)
PendingAfterConfirm == FALSE

NoActionMsg == "No action selected. Choose one of the menu buttons first."

BusyMsg == "Another task is running; please wait or stop it first."

ElevateMsgs ==
    <<"You have requested an elevated installation (sudo).",
      "To confirm, click 'Run Selected' again. This prevents accidental sudo usage.">>

run_action(act, params, confirmed) ==
    IF RunBlocked
    THEN /\ Logged(BusyMsg)
         /\ UNCHANGED <<running, workers>>
    ELSE /\ running' = TRUE
         /\ workers' = Append(workers, NewWorker(act, params, confirmed))
         /\ UNCHANGED log_buffer

RunSelected ==
    /\ Len(log_buffer) < limit
    /\ UNCHANGED <<action, form, pkg_install_pending, flows, spawned,
                   uncaught, limit, SCRIPTS_DIR, files, appended, system, exports,
                   sections, direct_appends, ui_pc>>
    /\ IF action = "none"
       THEN /\ Logged(NoActionMsg)
            /\ UNCHANGED <<running, workers, elevate_pending>>
       ELSE LET params == gather_params IN
            IF NeedsElevation(action, params)
            THEN IF ~elevate_pending
                 THEN /\ elevate_pending' = TRUE
                      /\ log_buffer' = append_log(
                             append_log(log_buffer, Txt(ElevateMsgs[1])),
                             Txt(ElevateMsgs[2]))
                      /\ UNCHANGED <<running, workers>>
                 ELSE /\ elevate_pending' = PendingAfterConfirm
                      /\ run_action(action, params, TRUE)
            ELSE /\ UNCHANGED elevate_pending
                 /\ run_action(action, params, FALSE)

(* The user edits a widget: a checkbox or the name / image-path field *)

EditFrame == UNCHANGED <<action, running, elevate_pending, pkg_install_pending,
                         log_buffer, workers, flows, spawned, uncaught,
                         limit, SCRIPTS_DIR, files, appended, system, exports,
                   sections, direct_appends, ui_pc>>

EditToggle(f) ==
    /\ form' = [form EXCEPT ![f] = ~form[f]]
    /\ EditFrame

EditInstName(v) ==
    /\ v # form.inst_name
    /\ form' = [form EXCEPT !.inst_name = v]
    /\ EditFrame

----------------------------------------------------------------------------
(* on_button_pressed: the section buttons (lines 236-249), _toggle_section *)
(* (lines 275-320) inlined                                                 *)

Sections == {"section_optional", "section_python", "section_system"}

(* lines 285-286: the section's visibility is inverted; the label of the   *)
(* button (lines 309-312) is a function of it; nothing is logged           *)
ToggleSection(sec) ==
    /\ sections' = [sections EXCEPT ![sec] = ~@]
    /\ UNCHANGED <<action, form, running, elevate_pending,
                   pkg_install_pending, log_buffer, workers, flows, spawned,
                   uncaught, limit, SCRIPTS_DIR, files, appended, system,
                   exports, direct_appends, ui_pc>>

(* A worker thread that clears the selection *)
WorkerFrame_ClearsAction ==
    /\ action' = "none"
    /\ UNCHANGED <<form, elevate_pending, pkg_install_pending, flows,
                   uncaught, limit, SCRIPTS_DIR, files, appended, system,
                   exports, sections, direct_appends, ui_pc>>

----------------------------------------------------------------------------
(* _worker (lines 330-385) *)

WorkerFrame == UNCHANGED <<action, form, elevate_pending, pkg_install_pending,
                           flows, uncaught, limit, SCRIPTS_DIR, files, appended, system, exports,
                   sections, direct_appends, ui_pc>>

SetWorker(i, w) == workers' = [workers EXCEPT ![i] = w]

(* lines 332-373: build the command; script_path may raise *)
W_Build(i) ==
    /\ workers[i].pc = "build"
    /\ LET w == workers[i]
           r == build_cmd(w.action, w.params, form.inst_name, files)
       IN  SetWorker(i,
             CASE r.kind = "cmd" ->
                    [w EXCEPT !.pc = "launch", !.cmd = r.cmd]
               [] r.kind = "missing" ->
                    [w EXCEPT !.pc = "log_msg",
                              !.msg = "Image path required for noVNC"]
               [] r.kind = "unknown" ->
                    [w EXCEPT !.pc = "log_msg",
                              !.msg = "Unknown action: " \o w.action]
               [] OTHER ->
                    [w EXCEPT !.pc = "log_msg",
                              !.msg = "Worker error: " \o r.cmd[1]])
    /\ UNCHANGED <<running, log_buffer, spawned>>
    /\ WorkerFrame

(* lines 376-377: log the command, then Popen starts the child or raises *)
W_Launch(i) ==
    /\ workers[i].pc = "launch"
    /\ Logged("Running: " \o join(" ", workers[i].cmd))
    /\ \E launched \in BOOLEAN :
         IF launched
         THEN /\ spawned' = spawned + 1
              /\ SetWorker(i, [workers[i] EXCEPT !.pc = "stream",
                                                 !.nspawn = @ + 1])
         ELSE /\ spawned' = spawned
              /\ SetWorker(i, [workers[i] EXCEPT
                                 !.pc = "log_msg",
                                 !.msg = "Worker error: launch failed"])
    /\ UNCHANGED running
    /\ WorkerFrame

(* lines 378-379: one line of the child's output *)
W_ReadLine(i) ==
    /\ workers[i].pc = "stream"
    /\ workers[i].nout < MaxWorkerOut
    /\ Logged(ChildLine(workers[i].nout + 1))
    /\ SetWorker(i, [workers[i] EXCEPT !.nout = @ + 1])
    /\ UNCHANGED <<running, spawned>>
    /\ WorkerFrame

(* lines 380-381: end of output, the child exits, its code is logged *)
W_Exit(i) ==
    /\ workers[i].pc = "stream"
    /\ \E rc \in ExitCodes : Logged("Process exited with " \o str_rc(rc))
    /\ SetWorker(i, [workers[i] EXCEPT !.pc = "finally"])
    /\ UNCHANGED <<running, spawned>>
    /\ WorkerFrame

(* lines 342, 362, 383: the message of an early return or of the handler *)
W_LogMsg(i) ==
    /\ workers[i].pc = "log_msg"
    /\ Logged(workers[i].msg)
    /\ SetWorker(i, [workers[i] EXCEPT !.pc = "finally"])
    /\ UNCHANGED <<running, spawned>>
    /\ WorkerFrame

(* The reset at the end of the try body: an early return or a handled     *)
(* exception skips it                                                      *)
ResetsLatch_InTryBody(w) == w.msg = ""

(* lines 384-385: the finally clause, then the thread ends *)
ResetsLatch(w) == TRUE

W_Finally(i) ==
    /\ workers[i].pc = "finally"
    /\ running' = IF ResetsLatch(workers[i]) THEN FALSE ELSE running
    /\ workers' = RemoveAt(workers, i)
    /\ UNCHANGED <<log_buffer, spawned>>
    /\ WorkerFrame

WorkerStep(i) ==
    \/ W_Build(i)
    \/ W_Launch(i)
    \/ W_ReadLine(i)
    \/ W_Exit(i)
    \/ W_LogMsg(i)
    \/ W_Finally(i)

----------------------------------------------------------------------------
(* action_deps_flow (lines 440-595) *)

(* The text of one output line of `simetrio deps` that holds the markers S *)
MarkerOrder == <<"Missing Python packages", "Found Multipass PKG",
                 "Multipass PKG present", "Missing binaries">>

RECURSIVE LineFrom(_, _)
LineFrom(S, k) ==
    IF k > Len(MarkerOrder) THEN ""
    ELSE (IF MarkerOrder[k] \in S THEN "[" \o MarkerOrder[k] \o "]" ELSE "")
         \o LineFrom(S, k + 1)

LineOf(S) == "deps:" \o LineFrom(S, 1)

DepsLines == {LineOf(S) : S \in SUBSET Markers}

(* the markers m with `m in line` *)
MarkersOf(line) ==
    IF line \in DepsLines
    THEN CHOOSE S \in SUBSET Markers : LineOf(S) = line
    ELSE {}

(* What a child may print as its k-th line: `simetrio deps` reports what   *)
(* is missing on its first line                                            *)
ChildLines(stage, k) ==
    IF stage = "check" /\ k = 1 THEN DepsLines ELSE {ChildLine(k)}

(* The package markers tested before the Python one *)
Branch_PkgFirst(out, install_system) ==
    IF "Found Multipass PKG" \in out \/ "Multipass PKG present" \in out
    THEN "pkg"
    ELSE IF "Missing Python packages" \in out THEN "python"
    ELSE IF "Missing binaries" \in out /\ install_system THEN "binaries"
    ELSE "fallback"

(* The binaries installer chosen whatever the toggle is *)
Branch_BinariesAlways(out, install_system) ==
    IF "Missing Python packages" \in out THEN "python"
    ELSE IF "Found Multipass PKG" \in out \/ "Multipass PKG present" \in out
         THEN "pkg"
    ELSE IF "Missing binaries" \in out THEN "binaries"
    ELSE "fallback"

(* lines 456, 511, 559-564, 595: the remediation branch *)
Branch(out, install_system) ==
    IF "Missing Python packages" \in out THEN "python"
    ELSE IF "Found Multipass PKG" \in out \/ "Multipass PKG present" \in out
         THEN "pkg"
    ELSE IF "Missing binaries" \in out /\ install_system THEN "binaries"
    ELSE "fallback"

(* lines 472-474, 485-488, 535-537, 570-572 *)
InstallerCmd(stage, elevate) ==
    IF stage = "py"
    THEN <<sys_executable, "-c",
           IF elevate
           THEN "import simetrio,sys; rc=simetrio.install_python_requirements_elevated(); sys.exit(rc)"
           ELSE "import simetrio,sys; rc=simetrio.install_python_requirements(); sys.exit(rc)">>
    ELSE <<sys_executable, "-c",
           "import simetrio,sys; rc=simetrio.install_system_binaries(bins=('multipass','qemu-system-x86_64'), elevate="
           \o str_bool(elevate) \o "); sys.exit(rc)">>

DetectedMsg(branch) ==
    CASE branch = "python" ->
           "Missing Python packages detected. Attempting to install automatically..."
      [] branch = "pkg" ->
           "Detected a downloaded Multipass PKG on macOS. This requires running the system installer to complete."
      [] OTHER -> "Attempting to install missing system binaries..."

RecheckStartMsg(branch) ==
    CASE branch = "python" -> "Re-checking dependencies after install..."
      [] branch = "pkg" -> "Re-checking dependencies after PKG installer..."
      [] OTHER -> "Re-checking dependencies after system install..."

CmdMsg(stage, branch, elevate) ==
    CASE stage = "recheck" -> RecheckStartMsg(branch)
      [] stage = "sys" ->
           "Running system installer: " \o join(" ", InstallerCmd(stage, elevate))
      [] stage = "py" ->
           "Running python installer: " \o join(" ", InstallerCmd(stage, elevate))
      [] stage = "pkg" ->
           "Running macOS PKG installer via: " \o join(" ", InstallerCmd(stage, elevate))
      [] OTHER ->
           "Running system install: " \o join(" ", InstallerCmd(stage, elevate))

FailMsg(stage, rc) ==
    CASE stage = "py" ->
           "Python installation failed with " \o str_rc(rc) \o ". Please install manually."
      [] stage = "pkg" ->
           "PKG installer run failed with " \o str_rc(rc) \o ". Check logs in build/logs or ~/.cache/simetrio/logs"
      [] OTHER ->
           "System installation failed with " \o str_rc(rc) \o ". Please install manually."

RecheckMsg(branch, rc) ==
    CASE branch = "python" ->
           (IF rc = 0 THEN "Dependencies satisfied after installation."
            ELSE "Dependencies remain missing after installation; please inspect output and install required system packages.")
      [] branch = "pkg" ->
           (IF rc = 0 THEN "Dependencies satisfied after PKG installation."
            ELSE "Dependencies still missing after PKG installation; please inspect the logs and run manual steps if needed.")
      [] OTHER ->
           (IF rc = 0 THEN "Dependencies satisfied after system installation."
            ELSE "Dependencies remain missing after system installation; please inspect output and install required system packages.")

SatisfiedMsg == "All dependencies satisfied."

FallbackMsg == "Some binaries are missing; please install them manually and re-run."

EnableMsg == "Enable \"Install system deps\" in the options to allow the TUI to run the PKG installer."

PkgConfirmMsg == "To run the macOS PKG installer (requires admin) click \"Run Selected\" again to confirm."

FlowFrame == UNCHANGED <<action, form, running, elevate_pending, workers,
                         limit, SCRIPTS_DIR, files, appended, system, exports,
                         sections>>

SetFlow(i, f) == flows' = [flows EXCEPT ![i] = f]

(* The flow logs its last message and returns: the thread ends *)
Finish(i, msg) ==
    /\ Logged(msg)
    /\ flows' = RemoveAt(flows, i)
    /\ UNCHANGED <<spawned, uncaught>>

(* No try statement encloses the body of action_deps_flow: an exception    *)
(* raised in it ends the thread, and threading's excepthook reports it on  *)
(* stderr.                                                                 *)
FlowCatches == FALSE

(* The flow launches the child of `stage`: script_path (for the check and  *)
(* the re-check) or Popen may raise.  `before` is logged first.            *)
Launch(i, f, stage, before) ==
    \E launched \in BOOLEAN :
      LET resolved == IF stage \in {"check", "recheck"}
                      THEN script_path("simetrio", files).ok ELSE TRUE
      IN  IF resolved /\ launched
          THEN /\ Logged(before)
               /\ spawned' = spawned + 1
               /\ SetFlow(i, [f EXCEPT !.pc = "stream", !.stage = stage,
                                       !.ran = Append(@, stage)])
               /\ UNCHANGED uncaught
          ELSE IF FlowCatches
          THEN /\ log_buffer' = append_log(append_log(log_buffer, Txt(before)),
                                           Txt("Dependency flow error"))
               /\ flows' = RemoveAt(flows, i)
               /\ UNCHANGED <<spawned, uncaught>>
          ELSE /\ Logged(before)
               /\ flows' = RemoveAt(flows, i)
               /\ uncaught' = uncaught + 1
               /\ UNCHANGED spawned

(* lines 443-444: the flow thread appends to the log itself, then starts   *)
(* the check                                                               *)
F_Start(i) ==
    /\ flows[i].pc = "start"
    /\ Launch(i, flows[i], "check", "Starting dependency check...")
    /\ direct_appends' = direct_appends + 1
    /\ UNCHANGED ui_pc
    /\ UNCHANGED pkg_install_pending
    /\ FlowFrame

(* lines 446-448 and the other read loops: one line of the child's output *)
F_ReadLine(i) ==
    /\ flows[i].pc = "stream"
    /\ flows[i].nout < MaxOut
    /\ \E line \in ChildLines(flows[i].stage, flows[i].nout + 1) :
         /\ Logged(line)
         /\ SetFlow(i, [flows[i] EXCEPT
                          !.nout = @ + 1,
                          !.out = IF flows[i].stage = "check"
                                  THEN @ \cup MarkersOf(line) ELSE @])
    /\ UNCHANGED <<pkg_install_pending, spawned, uncaught, direct_appends, ui_pc>>
    /\ FlowFrame

(* The Python installer run again after it has exited with 0 *)
StageAfter_Retry(stage) == IF stage = "recheck" THEN "recheck" ELSE "py"

(* The stage that follows an installer that exited with 0 *)
StageAfter(stage) == IF stage = "sys" THEN "py" ELSE "recheck"

(* The system installer's exit code left untested *)
AbortsOn_PyOnly(stage, rc) == stage # "sys" /\ rc # 0

(* An installer that exits non-zero ends the flow (lines 480-482, 494-496, *)
(* 543-545, 578-580)                                                       *)
AbortsOn(stage, rc) == rc # 0

(* The check counted as passed only when it printed no marker *)
CheckPassed_NoMarkers(rc, out) == rc = 0 /\ out = {}

(* line 451: the test of the initial check's exit code *)
CheckPassed(rc, out) == rc = 0

(* proc.wait() returns: the child has exited with rc *)
F_ExitWith(i, rc) ==
    /\ flows[i].pc = "stream"
    /\ LET f == [flows[i] EXCEPT !.rcs = Append(@, rc)] IN
         CASE f.stage = "check" ->
                IF CheckPassed(rc, f.out)
                THEN Finish(i, SatisfiedMsg)
                ELSE LET b == Branch(f.out, form.install_system)
                     IN  IF b = "fallback"
                         THEN Finish(i, FallbackMsg)
                         ELSE /\ Logged(DetectedMsg(b))
                              /\ SetFlow(i, [f EXCEPT !.pc = "read", !.branch = b])
                              /\ UNCHANGED <<spawned, uncaught>>
           [] f.stage = "recheck" -> Finish(i, RecheckMsg(f.branch, rc))
           [] OTHER ->
                IF AbortsOn(f.stage, rc)
                THEN Finish(i, FailMsg(f.stage, rc))
                ELSE Launch(i, f, StageAfter(f.stage),
                            CmdMsg(StageAfter(f.stage), f.branch, f.elevate))
    /\ UNCHANGED <<pkg_install_pending, direct_appends, ui_pc>>
    /\ FlowFrame

F_Exit(i) == \E rc \in ExitCodes : F_ExitWith(i, rc)

(* lines 459-471, 513-527, 566-574: the flow reads the toggles (and, in    *)
(* the package-installer branch, the latch) and goes on                    *)
F_Read(i) ==
    /\ flows[i].pc = "read"
    /\ LET f == [flows[i] EXCEPT !.elevate = form.elevate,
                                 !.install_system = form.install_system]
       IN  CASE f.branch = "python" ->
                  LET st == IF f.install_system THEN "sys" ELSE "py"
                  IN  Launch(i, f, st, CmdMsg(st, f.branch, f.elevate))
             [] f.branch = "pkg" ->
                  IF ~f.install_system
                  THEN Finish(i, EnableMsg)
                  ELSE /\ SetFlow(i, [f EXCEPT !.pc = "pkg_set",
                                               !.saw_pending = pkg_install_pending])
                       /\ UNCHANGED <<log_buffer, spawned, uncaught>>
             [] OTHER -> Launch(i, f, "bin", CmdMsg("bin", f.branch, f.elevate))
    /\ UNCHANGED <<pkg_install_pending, direct_appends, ui_pc>>
    /\ FlowFrame

(* The installer run without the test of the latch *)
F_PkgSet_NoGate(i) ==
    /\ flows[i].pc = "pkg_set"
    /\ pkg_install_pending' = FALSE
    /\ Logged("Running macOS PKG installer via: "
                \o join(" ", InstallerCmd("pkg", flows[i].elevate)))
    /\ spawned' = spawned + 1
    /\ flows' = [flows EXCEPT ![i] = [@ EXCEPT !.pc = "stream",
                                               !.stage = "pkg",
                                               !.confirmed = TRUE,
                                               !.ran = Append(@, "pkg")]]
    /\ UNCHANGED uncaught
    /\ UNCHANGED <<action, form, running, elevate_pending, workers,
                   limit, SCRIPTS_DIR, files, appended, system, exports,
                   sections, direct_appends, ui_pc>>

(* lines 528-530, 533-539: the latch is set, or reset and the installer run *)
F_PkgSet(i) ==
    /\ flows[i].pc = "pkg_set"
    /\ IF ~flows[i].saw_pending
       THEN /\ pkg_install_pending' = TRUE
            /\ Finish(i, PkgConfirmMsg)
       ELSE /\ pkg_install_pending' = FALSE
            /\ Launch(i, [flows[i] EXCEPT !.confirmed = TRUE], "pkg",
                      CmdMsg("pkg", flows[i].branch, flows[i].elevate))
    /\ UNCHANGED <<direct_appends, ui_pc>>
    /\ FlowFrame

FlowStep(i) ==
    \/ F_Start(i)
    \/ F_ReadLine(i)
    \/ F_Exit(i)
    \/ F_Read(i)
    \/ F_PkgSet(i)

----------------------------------------------------------------------------
(* Specification of the menu, Run Selected and the primary worker *)

Next ==
    \/ \E b \in Actions : PressMenu(b)
    \/ RunSelected
    \/ \E v \in InstNameValues : EditInstName(v)
    \/ \E i \in DOMAIN workers : WorkerStep(i)

Spec == Init /\ [][Next]_vars

(* Specification of the elevation gate: the Deps action and its toggles *)

NextGate ==
    \/ PressMenu("deps")
    \/ RunSelected
    \/ \E f \in ToggleFields : EditToggle(f)
    \/ \E i \in DOMAIN workers : WorkerStep(i)

SpecGate == InitGate /\ [][NextGate]_vars

(* Specification of the dependency flow: the 'deps' button, the toggles    *)
(* the flow reads, and the flow threads                                    *)

InitFlow == InitWith(MaxFlowLog, ScriptsLayouts)

(* The user presses 'deps' again once the flow in progress has ended *)
PressDeps == flows = <<>> /\ PressMenu("deps")

NextFlow ==
    \/ PressDeps
    \/ \E f \in {"install_system", "elevate"} : EditToggle(f)
    \/ \E i \in DOMAIN flows : FlowStep(i)

SpecFlow == InitFlow /\ [][NextFlow]_vars

----------------------------------------------------------------------------
(* Worker mutual exclusion and the elevation gate (SpecGate) *)

Contains(buf, line) == \E k \in DOMAIN buf : buf[k] = line

(* The Run Selected request is an elevated Deps request *)
ElevatedDepsRequest ==
    /\ action = "deps"
    /\ form.elevate
    /\ form.install_python \/ form.install_system

AtMostOneWorker ==
    /\ Len(workers) <= 1
    /\ Cardinality({i \in DOMAIN workers : workers[i].pc = "stream"}) <= 1
    /\ (workers # <<>>) => running

(* C1, as stated: in every reachable state at most one primary worker (and *)
(* at most one primary child process) exists, and every Run Selected       *)
(* request made while running is true starts no worker, spawns no process, *)
(* appends the busy message and leaves running true.                       *)
C1_BusyAlways ==
    /\ [] AtMostOneWorker
    /\ [][(RunSelected /\ running) =>
            /\ workers' = workers
            /\ spawned' = spawned
            /\ running'
            /\ log_buffer' = append_log(log_buffer, Txt(BusyMsg))]_vars

(* C1, amended: at most one primary worker (and at most one primary child  *)
(* process) exists in every reachable state; a Run Selected request made   *)
(* while running is true starts no worker, spawns no process and leaves    *)
(* running true; it appends the busy message, except that an elevated Deps *)
(* request made with the elevation gate Idle appends the two confirmation  *)
(* lines instead (and arms the gate).                                      *)
C1_MutualExclusion ==
    /\ [] AtMostOneWorker
    /\ [][(RunSelected /\ running) =>
            /\ workers' = workers
            /\ spawned' = spawned
            /\ running'
            /\ log_buffer' =
                 IF ElevatedDepsRequest /\ ~elevate_pending
                 THEN log_buffer \o ElevateMsgs
                 ELSE Append(log_buffer, BusyMsg)]_vars

(* A request was refused while the worker was still there *)
C1_Witness ==
    /\ running
    /\ Len(workers) = 1
    /\ Contains(log_buffer, BusyMsg)


(* C3: with the elevation gate Idle, a Run Selected request for Deps with  *)
(* the elevate toggle and an install toggle set starts no worker, spawns   *)
(* no process, leaves running as it is and moves the gate to               *)
(* PendingConfirmation.                                                    *)
C3_FirstRequestArmsGate ==
    [][(RunSelected /\ ElevatedDepsRequest /\ ~elevate_pending) =>
         /\ elevate_pending'
         /\ workers' = workers
         /\ spawned' = spawned
         /\ running' = running]_vars

(* The gate is armed and nothing has run *)
C3_Witness ==
    /\ elevate_pending
    /\ ~running
    /\ workers = <<>>
    /\ spawned = 0
    /\ log_buffer = <<"Selected action: deps">> \o ElevateMsgs


(* The processes a worker has spawned: one once its child has been         *)
(* launched, none before and none when the script did not resolve or the   *)
(* launch failed                                                           *)
SpawnsOfWorker(w) ==
    IF w.pc = "stream" \/ (w.pc = "finally" /\ w.msg = "") THEN 1 ELSE 0

(* C4, as stated: with the gate in PendingConfirmation the repeated        *)
(* elevated Deps request resets the gate, and the gated command is issued: *)
(* a worker is started for the request, in every state in which the        *)
(* request is made.                                                        *)
C4_ConfirmAlwaysRuns ==
    [][(RunSelected /\ ElevatedDepsRequest /\ elevate_pending) =>
         /\ ~elevate_pending'
         /\ Len(workers') = Len(workers) + 1]_vars

(* C4, amended: with the gate in PendingConfirmation the repeated elevated *)
(* Deps request always resets the gate to Idle.  If running is false it    *)
(* starts exactly one worker for the request, and that worker spawns       *)
(* exactly one process when the script resolves and the launch succeeds    *)
(* and none otherwise; if running is true it starts no worker, spawns no   *)
(* process and appends the busy message.                                   *)
C4_ConfirmResetsGate ==
    /\ [][(RunSelected /\ ElevatedDepsRequest /\ elevate_pending) =>
            /\ ~elevate_pending'
            /\ spawned' = spawned
            /\ IF running
               THEN /\ workers' = workers
                    /\ log_buffer' = Append(log_buffer, BusyMsg)
               ELSE /\ running'
                    /\ Len(workers') = 1
                    /\ workers'[1].confirmed
                    /\ workers'[1].action = "deps"
                    /\ workers'[1].params.elevate
                    /\ workers'[1].nspawn = 0]_vars
    /\ [] (\A i \in DOMAIN workers :
             workers[i].confirmed => workers[i].nspawn = SpawnsOfWorker(workers[i]))

(* The confirmed request's worker has launched its one process and the    *)
(* gate is Idle again                                                      *)
C4_Witness ==
    /\ ~elevate_pending
    /\ \E i \in DOMAIN workers :
         /\ workers[i].confirmed
         /\ workers[i].pc = "stream"
         /\ workers[i].nspawn = 1
         /\ "--elevate" \in {workers[i].cmd[k] : k \in DOMAIN workers[i].cmd}


----------------------------------------------------------------------------
(* The running latch under a fair scheduler (SpecLive) *)

MaxLiveLog == 2

InitLive == InitWith(MaxLiveLog, ScriptsLayouts)

(* A started thread keeps being scheduled, and a child process that has    *)
(* been launched ends its output and exits                                 *)
Fairness == WF_vars(\E i \in DOMAIN workers : WorkerStep(i))

SpecLive == InitLive /\ [][Next]_vars /\ Fairness

(* C2: whenever running is true it later becomes false, on every path of   *)
(* the worker, and running is never true without a worker that will reset  *)
(* it.                                                                     *)
C2_LatchReleased ==
    /\ running ~> ~running
    /\ [] (running => workers # <<>>)

(* A worker that returned early (no image path) has ended and released the *)
(* latch                                                                   *)
C2_Witness ==
    /\ ~running
    /\ workers = <<>>
    /\ Contains(log_buffer, "Image path required for noVNC")

----------------------------------------------------------------------------
(* The dependency flow (SpecFlow) *)

Stages(f) == {f.ran[k] : k \in DOMAIN f.ran}

IsPrefix(xs, ys) == Len(xs) <= Len(ys) /\ xs = SubSeq(ys, 1, Len(xs))

(* The child running in flow f is an installer run with elevation *)
ElevatedInstaller(f) ==
    /\ f.pc = "stream"
    /\ \/ f.stage \in {"sys", "py", "bin"} /\ f.elevate
       \/ f.stage = "pkg"

(* C5, as stated: every installation command run with elevation (a primary *)
(* Deps command carrying --elevate with an install flag, a flow's          *)
(* system-binaries or Python-requirements installer run with elevate set,  *)
(* the package-installer run) is running only after a repeated user action *)
(* took a confirmation gate from PendingConfirmation to Idle.              *)
C5_ElevatedOnlyAfterConfirm ==
    /\ \A i \in DOMAIN flows :
         ElevatedInstaller(flows[i]) => flows[i].confirmed
    /\ \A i \in DOMAIN workers :
         (workers[i].pc = "stream"
            /\ workers[i].action = "deps"
            /\ workers[i].params.elevate
            /\ (workers[i].params.install_python
                  \/ workers[i].params.install_system))
         => workers[i].confirmed

(* C6: in the package-installer branch the installer is issued only with   *)
(* the system-deps toggle enabled and the package gate found in            *)
(* PendingConfirmation (the gate is then reset to Idle); a flow that finds *)
(* the gate Idle sets it to PendingConfirmation and issues no installer;   *)
(* with the toggle disabled it issues no installer and leaves the gate     *)
(* unchanged.                                                              *)
C6_PkgGate ==
    /\ [] (\A i \in DOMAIN flows :
             "pkg" \in Stages(flows[i]) =>
                /\ flows[i].install_system
                /\ flows[i].saw_pending
                /\ flows[i].confirmed)
    /\ [][\A i \in DOMAIN flows :
            (flows[i].branch = "pkg" /\ FlowStep(i)) =>
              CASE flows[i].pc = "read" /\ ~form.install_system ->
                     /\ pkg_install_pending' = pkg_install_pending
                     /\ spawned' = spawned
                     /\ flows' = RemoveAt(flows, i)
                     /\ log_buffer' = Append(log_buffer, EnableMsg)
                [] flows[i].pc = "read" /\ form.install_system ->
                     /\ pkg_install_pending' = pkg_install_pending
                     /\ spawned' = spawned
                     /\ flows'[i].saw_pending = pkg_install_pending
                [] flows[i].pc = "pkg_set" /\ ~flows[i].saw_pending ->
                     /\ pkg_install_pending'
                     /\ spawned' = spawned
                     /\ flows' = RemoveAt(flows, i)
                     /\ log_buffer' = Append(log_buffer, PkgConfirmMsg)
                [] flows[i].pc = "pkg_set" /\ flows[i].saw_pending ->
                     /\ ~pkg_install_pending'
                     /\ \/ /\ spawned' = spawned + 1
                           /\ flows'[i].stage = "pkg"
                        \/ /\ spawned' = spawned
                           /\ uncaught' = uncaught + 1
                [] OTHER -> TRUE]_vars

(* A second flow found the gate pending, reset it and runs the installer *)
C6_Witness ==
    /\ ~pkg_install_pending
    /\ Contains(log_buffer, PkgConfirmMsg)
    /\ \E i \in DOMAIN flows :
         /\ flows[i].pc = "stream"
         /\ flows[i].stage = "pkg"
         /\ flows[i].saw_pending

(* The branch the marker precedence selects for the captured output *)
ByPrecedence(out) ==
    CASE "Missing Python packages" \in out -> "python"
      [] "Missing Python packages" \notin out
           /\ ("Found Multipass PKG" \in out \/ "Multipass PKG present" \in out)
           -> "pkg"
      [] out = {"Missing binaries"} -> "binaries"
      [] out = {} -> "fallback"

StagesOf(branch) ==
    CASE branch = "python" -> {"check", "sys", "py", "recheck"}
      [] branch = "pkg" -> {"check", "pkg", "recheck"}
      [] branch = "binaries" -> {"check", "bin", "recheck"}
      [] OTHER -> {"check"}

(* C7: when the check exits non-zero the branch is chosen by marker        *)
(* precedence (Python packages, then either package marker, then missing   *)
(* binaries, then the generic fallback message), for every combination of  *)
(* markers; only the chosen branch runs: a flow issues the commands of its *)
(* branch only, and the package gate changes only in a flow whose branch   *)
(* is the package-installer one.  (The missing-binaries branch with the    *)
(* system-deps toggle off issues nothing and ends with the generic         *)
(* message.)                                                               *)
C7_Precedence ==
    /\ [][\A i \in DOMAIN flows :
            (/\ flows[i].pc = "stream"
             /\ flows[i].stage = "check"
             /\ F_Exit(i)
             /\ log_buffer' # Append(log_buffer, SatisfiedMsg)) =>
              LET b == ByPrecedence(flows[i].out) IN
              /\ spawned' = spawned
              /\ pkg_install_pending' = pkg_install_pending
              /\ IF b = "fallback" \/ (b = "binaries" /\ ~form.install_system)
                 THEN /\ flows' = RemoveAt(flows, i)
                      /\ log_buffer' = Append(log_buffer, FallbackMsg)
                 ELSE /\ flows'[i].branch = b
                      /\ log_buffer' = Append(log_buffer, DetectedMsg(b))]_vars
    /\ [] (\A i \in DOMAIN flows :
             /\ Stages(flows[i]) \subseteq StagesOf(flows[i].branch)
             /\ flows[i].branch # "none" =>
                  flows[i].branch = ByPrecedence(flows[i].out)
             /\ flows[i].pc = "pkg_set" => flows[i].branch = "pkg")
    /\ [][pkg_install_pending' # pkg_install_pending =>
            \E i \in DOMAIN flows : flows[i].branch = "pkg"]_vars

(* Every marker was in the output and the Python installer is running *)
C7_Witness ==
    \E i \in DOMAIN flows :
      /\ flows[i].out = Markers
      /\ flows[i].branch = "python"
      /\ flows[i].stage = "py"
      /\ flows[i].pc = "stream"

(* The order of the Python-packages branch *)
PythonOrder(install_system) ==
    IF install_system THEN <<"check", "sys", "py", "recheck">>
    ELSE <<"check", "py", "recheck">>

(* C8: in the Python-packages branch the commands are issued in the order  *)
(* system-binaries install (only with the system-deps toggle set),         *)
(* Python-requirements install, re-check; a step is issued only after      *)
(* every installer before it exited with 0, and an installer exiting       *)
(* non-zero ends the flow with its manual-intervention message and no      *)
(* further command.                                                        *)
C8_PythonOrder ==
    /\ [] (\A i \in DOMAIN flows :
             flows[i].branch = "python" =>
               /\ IsPrefix(flows[i].ran, PythonOrder(flows[i].install_system))
               /\ \A k \in DOMAIN flows[i].rcs :
                    flows[i].ran[k] \in {"sys", "py"} => flows[i].rcs[k] = 0)
    /\ [][\A i \in DOMAIN flows :
            (flows[i].branch = "python" /\ FlowStep(i)) =>
              CASE flows[i].pc = "read" ->
                     \/ /\ Len(flows') = Len(flows)
                        /\ flows'[i].install_system = form.install_system
                        /\ spawned' = spawned + 1
                     \/ uncaught' = uncaught + 1
                [] /\ flows[i].pc = "stream"
                   /\ flows[i].stage \in {"sys", "py"}
                   /\ Len(flows') < Len(flows) ->
                     \/ /\ log_buffer' =
                             Append(log_buffer, FailMsg(flows[i].stage, 1))
                        /\ spawned' = spawned
                     \/ uncaught' = uncaught + 1
                [] OTHER -> TRUE]_vars

(* Both installers exited with 0 and the re-check is running *)
C8_Witness ==
    \E i \in DOMAIN flows :
      /\ flows[i].branch = "python"
      /\ flows[i].ran = <<"check", "sys", "py", "recheck">>
      /\ flows[i].rcs = <<1, 0, 0>>
      /\ flows[i].pc = "stream"

(* C10, as stated: no background operation ends with a failure that was    *)
(* not caught at its boundary and logged.                                  *)
C10_AllFailuresCaught == uncaught = 0

----------------------------------------------------------------------------
(* The log buffer alone (SpecLog): the program appends numbered texts of   *)
(* one line, of two lines and of MaxText lines, with or without a final    *)
(* newline, and, to the empty buffer, also the empty text and a lone       *)
(* newline                                                                 *)

MaxOver == 3

MaxText == 32

(* The text of the k lines numbered n+1 .. n+k, joined by newlines *)
NumberedText(n, k) ==
    [j \in 1..(2 * k - 1) |->
        IF j % 2 = 1 THEN ToString(n + (j + 1) \div 2) ELSE NL]

LogTexts(n) ==
    {NumberedText(n, 1),
     NumberedText(n, 1) \o <<NL>>,
     NumberedText(n, 2),
     NumberedText(n, MaxText)}
    \cup (IF n = 0 THEN {<<>>, <<NL>>} ELSE {})

(* _append_log(text), lines 388-397 *)
AppendLog ==
    /\ \E text \in LogTexts(Len(appended)) :
         LET ls == IF splitlines(text) = <<>> THEN <<"">> ELSE splitlines(text)
         IN  /\ Len(appended) + Len(ls) <= LogCap + MaxOver
             /\ log_buffer' = append_log(log_buffer, text)
             /\ appended' = appended \o ls
    /\ UNCHANGED <<action, form, running, elevate_pending, pkg_install_pending,
                   workers, flows, spawned, uncaught, limit, SCRIPTS_DIR, files,
                   system, exports, sections, direct_appends, ui_pc>>

InitLog == InitWith(0, {l \in ScriptsLayouts : l.files = {"scripts"}})

NextLog == AppendLog

SpecLog == InitLog /\ [][NextLog]_vars

Min(a, b) == IF a < b THEN a ELSE b

(* C9: after any sequence of appends the buffer holds at most 5000 lines,  *)
(* and they are exactly the last min(N, 5000) of the N lines appended, in  *)
(* the order of their appending.                                           *)
C9_LastLines ==
    /\ Len(log_buffer) <= LogCap
    /\ LET n == Len(appended)
       IN  log_buffer = SubSeq(appended, n - Min(n, LogCap) + 1, n)

(* More than 5000 lines were appended: the oldest are gone *)
C9_Witness ==
    /\ Len(appended) > LogCap
    /\ Len(log_buffer) = LogCap
    /\ log_buffer[1] # appended[1]
    /\ log_buffer[LogCap] = appended[Len(appended)]

----------------------------------------------------------------------------
(* _copy_log_to_clipboard (lines 405-437) and the 'copy_log' button        *)
(* (lines 208-214)                                                         *)

Systems == {"Darwin", "Linux"}

(* What the environment holds for a clipboard utility when Copy Log is     *)
(* pressed: it is not installed, it is found but the launch raises, it     *)
(* runs and exits non-zero, or it runs and exits with 0                    *)
UtilityStates == {"absent", "nolaunch", "fail", "ok"}

ClipEnvs == [pbcopy : UtilityStates, wl_copy : UtilityStates,
             xclip : UtilityStates]

(* lines 419-432: shutil.which guards wl-copy and xclip *)
after_which(env) ==
    IF env.wl_copy = "ok" THEN "wl-copy"
    ELSE IF env.wl_copy = "nolaunch" THEN "raised"
    ELSE IF env.xclip = "ok" THEN "xclip"
    ELSE IF env.xclip = "nolaunch" THEN "raised"
    ELSE "file"

(* lines 411-434: the way the data leaves the program; pbcopy is launched  *)
(* on Darwin with no test that it exists                                   *)
copy_route(env, sys) ==
    IF sys = "Darwin"
    THEN IF env.pbcopy = "ok" THEN "pbcopy"
         ELSE IF env.pbcopy \in {"absent", "nolaunch"} THEN "raised"
         ELSE after_which(env)
    ELSE after_which(env)

(* tempfile.mkstemp: a name no earlier file has *)
mkstemp(n) == "/tmp/simetrio-log-" \o ToString(n + 1) \o ".txt"

TempFiles == {k \in DOMAIN exports : exports[k].via = "file"}

CopyLog(env) ==
    /\ Len(log_buffer) < limit
    /\ LET data == join(NL, log_buffer)
           route == copy_route(env, system)
           path == mkstemp(Cardinality(TempFiles))
       IN  IF data = ""
           THEN /\ Logged("No log data to copy.")
                /\ UNCHANGED exports
           ELSE IF route = "raised"
           THEN /\ Logged("Copy failed: [Errno 2] No such file or directory")
                /\ UNCHANGED exports
           ELSE IF route = "file"
           THEN /\ Logged("Clipboard utilities not found; log written to: "
                          \o path)
                /\ exports' = Append(exports, [via |-> "file", data |-> data,
                                               path |-> path])
           ELSE /\ Logged("Log copied to clipboard (" \o route \o ").")
                /\ exports' = Append(exports, [via |-> route, data |-> data,
                                               path |-> ""])
    /\ UNCHANGED <<action, form, running, elevate_pending, pkg_install_pending,
                   workers, flows, spawned, uncaught, limit, SCRIPTS_DIR, files,
                   appended, system, sections, direct_appends, ui_pc>>

MaxClipLog == 3

InitClip ==
    InitOn(MaxClipLog, {l \in ScriptsLayouts : l.files = {"scripts"}}, Systems)

NextClip ==
    \/ \E b \in {"build", "clean"} : PressMenu(b)
    \/ \E env \in ClipEnvs : CopyLog(env)

SpecClip == InitClip /\ [][NextClip]_vars

(* C11, as stated: Copy Log on a non-empty buffer always ends with the     *)
(* data exported: a utility took the newline-joined buffer, or it was      *)
(* written unchanged to a temporary file whose path is logged.             *)
C11_AlwaysExported ==
    [][((\E env \in ClipEnvs : CopyLog(env)) /\ log_buffer # <<>>) =>
         /\ Len(exports') = Len(exports) + 1
         /\ LET x == exports'[Len(exports')]
            IN  /\ x.data = join(NL, log_buffer)
                /\ x.via = "file" =>
                     log_buffer' = Append(log_buffer,
                        "Clipboard utilities not found; log written to: "
                        \o x.path)]_vars

----------------------------------------------------------------------------
(* The command builder over every form (SpecCmd): the user has filled in   *)
(* the form before the first button is pressed                             *)

MaxCmdLog == 4

FieldValues == {"", "8"}

Forms ==
    [inst_name : InstNameValues, mem : FieldValues, cpus : FieldValues,
     disk : FieldValues, kde : BOOLEAN, calamares : BOOLEAN,
     install_python : BOOLEAN, install_system : BOOLEAN, elevate : BOOLEAN]

InitCmd ==
    /\ action = "none"
    /\ form \in Forms
    /\ running = FALSE
    /\ elevate_pending = FALSE
    /\ pkg_install_pending = FALSE
    /\ log_buffer = <<>>
    /\ workers = <<>>
    /\ flows = <<>>
    /\ spawned = 0
    /\ uncaught = 0
    /\ limit = MaxCmdLog
    /\ appended = <<>>
    /\ system = "Linux"
    /\ exports = <<>>
    /\ sections = [section_optional |-> FALSE, section_python |-> FALSE,
                   section_system |-> FALSE]
    /\ direct_appends = 0
    /\ ui_pc = "idle"
    /\ SCRIPTS_DIR = "scripts"
    /\ files = {"scripts"}

(* One request at a time: the user presses a menu button when no worker   *)
(* is there, then Run Selected                                             *)
NextCmd ==
    \/ \E b \in Actions : log_buffer = <<>> /\ PressMenu(b)
    \/ workers = <<>> /\ RunSelected
    \/ \E i \in DOMAIN workers : W_Build(i)

SpecCmd == InitCmd /\ [][NextCmd]_vars

(* The documented argument list of an action for the parameters p *)
Flag(b, flag) == IF b THEN <<flag>> ELSE <<>>

Documented(act, p) ==
    CASE act = "build" ->
           <<"scripts/multipass-run.sh", "--name", p.name, "--mem", p.mem,
             "--cpus", p.cpus, "--disk", p.disk>>
           \o Flag(p.kde, "--with-kde") \o Flag(p.calamares, "--with-calamares")
      [] act = "clean" ->
           <<"scripts/clean-build.sh", "--yes", "--remove-instance",
             "--instance-name", p.name>>
      [] act = "stop" -> <<"scripts/stop-novnc.sh">>
      [] act = "check" -> <<"python3", "scripts/simetrio", "check">>
      [] act = "deps" ->
           <<"python3", "scripts/simetrio", "deps">>
           \o Flag(p.install_python, "--install-python")
           \o Flag(p.install_system, "--install-binaries")
           \o Flag(p.elevate, "--elevate")

(* The value of a text field, or its default when the field is blank *)
FieldOr(v, d) == IF v \in {"", " "} THEN d ELSE v

(* C12: for every action but RunDisplay and every form, the parameters of  *)
(* a request are the form's values (stralyx, 4G, 2, 20G for blank fields)  *)
(* and the command the worker builds is the documented executable and      *)
(* argument list: Build's four options, then --with-kde and                *)
(* --with-calamares when toggled; Clean's --yes --remove-instance          *)
(* --instance-name <name>; StopDisplay without arguments; Check's          *)
(* subcommand; Deps' subcommand followed by --install-python,              *)
(* --install-binaries, --elevate for exactly the toggles set.              *)
C12_DocumentedCommand ==
    /\ [] (\A i \in DOMAIN workers :
             (workers[i].pc = "launch" /\ workers[i].action # "novnc") =>
                workers[i].cmd = Documented(workers[i].action, workers[i].params))
    /\ [][(RunSelected /\ Len(workers') > Len(workers)) =>
            LET p == workers'[Len(workers')].params IN
            /\ workers'[Len(workers')].action = action
            /\ p.name = FieldOr(form.inst_name, "stralyx")
            /\ p.mem = FieldOr(form.mem, "4G")
            /\ p.cpus = FieldOr(form.cpus, "2")
            /\ p.disk = FieldOr(form.disk, "20G")
            /\ p.kde = form.kde /\ p.calamares = form.calamares
            /\ p.install_python = form.install_python
            /\ p.install_system = form.install_system
            /\ p.elevate = form.elevate]_vars

(* Build with a blank name, a memory size and one optional flag; Deps with *)
(* the three flags would do as well                                        *)
C12_Witness ==
    \E i \in DOMAIN workers :
      /\ workers[i].pc = "launch"
      /\ workers[i].cmd = <<"scripts/multipass-run.sh", "--name", "stralyx",
                            "--mem", "8", "--cpus", "2", "--disk", "20G",
                            "--with-calamares">>

----------------------------------------------------------------------------
(* RunDisplay without an image path (SpecLive) *)

MissingImageMsg == "Image path required for noVNC"

(* C13: a RunDisplay worker that finds the image-path field empty or       *)
(* holding only whitespace issues no process, reports the missing field in *)
(* the log, and running returns to false.                                  *)
C13_MissingImage ==
    /\ [][\A i \in DOMAIN workers :
            (/\ workers[i].action = "novnc"
             /\ form.inst_name \in {"", " "}
             /\ W_Build(i)) =>
              /\ workers'[i].pc = "log_msg"
              /\ workers'[i].msg = MissingImageMsg
              /\ spawned' = spawned]_vars
    /\ [] (\A i \in DOMAIN workers :
             workers[i].msg = MissingImageMsg =>
               /\ workers[i].nspawn = 0
               /\ workers[i].pc \in {"log_msg", "finally"}
               /\ workers[i].pc = "finally" =>
                    Contains(log_buffer, MissingImageMsg))
    /\ (\E i \in DOMAIN workers : workers[i].msg = MissingImageMsg)
         ~> (~running /\ workers = <<>>)

(* The field held one blank when the worker read it: nothing was spawned  *)
(* and the latch is free again                                             *)
C13_Witness ==
    /\ action = "novnc"
    /\ form.inst_name = " "
    /\ ~running
    /\ spawned = 0
    /\ log_buffer = <<"Selected action: novnc", MissingImageMsg>>

----------------------------------------------------------------------------
(* Script resolution over every repository layout (SpecResolve) *)

MaxResolveLog == 2

InitResolve == InitWith(MaxResolveLog, Layouts)

NextResolve ==
    \/ \E b \in {"stop", "check"} : PressMenu(b)
    \/ RunSelected
    \/ \E i \in DOMAIN workers : WorkerStep(i)

SpecResolve == InitResolve /\ [][NextResolve]_vars

(* The first of the preferred directory, the fallback directory and the    *)
(* repository root that holds the script                                   *)
FirstExisting(name, fs) ==
    IF "bin" \in fs THEN "bin/" \o name
    ELSE IF "scripts" \in fs THEN "scripts/" \o name
    ELSE IF "root" \in fs THEN name
    ELSE "unresolved"

(* The script path in the command of a worker *)
ResolvedBy(w) == IF w.action \in {"check", "deps"} THEN w.cmd[2] ELSE w.cmd[1]

(* C14, as stated: resolution consults the preferred directory (bin),     *)
(* then the fallback directory (scripts), then the repository root, and    *)
(* returns the first where the script exists; it fails only when none of   *)
(* the three holds the script.                                             *)
C14_FirstExistingWins ==
    \A i \in DOMAIN workers :
      workers[i].pc \in {"launch", "log_msg"} =>
        IF files = {}
        THEN workers[i].pc = "log_msg"
        ELSE /\ workers[i].pc = "launch"
             /\ ResolvedBy(workers[i])
                  = FirstExisting(ScriptOf(workers[i].action), files)

----------------------------------------------------------------------------
(* The elevation gate across menu selections (SpecLatch): the menu, Run    *)
(* Selected and the toggles of the gate; the workers started are not       *)
(* scheduled                                                               *)

MaxLatchLog == 5

InitLatch ==
    InitWith(MaxLatchLog, {l \in ScriptsLayouts : l.files = {"scripts"}})

NextLatch ==
    \/ \E b \in Actions : PressMenu(b)
    \/ RunSelected
    \/ \E f \in {"elevate", "install_python"} : EditToggle(f)

SpecLatch == InitLatch /\ [][NextLatch]_vars

(* C15: once the elevation gate is PendingConfirmation, a menu selection   *)
(* and a Run Selected request other than the elevated Deps request leave   *)
(* it PendingConfirmation; it returns to Idle only by a Run Selected       *)
(* request that is the elevated Deps request.                              *)
C15_GatePersists ==
    /\ [][(elevate_pending
             /\ \/ \E b \in Actions : PressMenu(b)
                \/ RunSelected /\ ~ElevatedDepsRequest)
          => elevate_pending']_vars
    /\ [][(elevate_pending /\ ~elevate_pending')
          => (RunSelected /\ ElevatedDepsRequest)]_vars

(* With the gate pending Build was selected and run, toggles still set:   *)
(* the gate is still pending                                               *)
C15_Witness ==
    /\ elevate_pending
    /\ action = "build"
    /\ form.elevate /\ form.install_python
    /\ Len(workers) = 1
    /\ workers[1].action = "build"

----------------------------------------------------------------------------
(* A primary worker and a dependency flow side by side (SpecBoth) *)

MaxBothLog == 2

InitBoth ==
    InitWith(MaxBothLog, {l \in ScriptsLayouts : l.files = {"scripts"}})

NextBoth ==
    \/ PressDeps
    \/ RunSelected
    \/ \E i \in DOMAIN workers : WorkerStep(i)
    \/ \E i \in DOMAIN flows : FlowStep(i)

SpecBoth == InitBoth /\ [][NextBoth]_vars

(* C16: no step of the dependency flow changes running; a flow can take    *)
(* its next step (start, spawn, read, go on) whatever running is; and a    *)
(* Run Selected request made while running is false starts a worker        *)
(* whether or not a dependency flow is in progress.                        *)
C16_FlowIgnoresRunning ==
    /\ [][\A i \in DOMAIN flows : FlowStep(i) => running' = running]_vars
    /\ [] (\A i \in DOMAIN flows : ENABLED FlowStep(i))
    /\ [][(RunSelected /\ ~running /\ action # "none" /\ ~ElevatedDepsRequest)
          => (running' /\ Len(workers') = Len(workers) + 1)]_vars

(* The worker's child and the flow's child are alive together *)
C16_Witness ==
    /\ running
    /\ \E i \in DOMAIN workers : workers[i].pc = "stream"
    /\ \E i \in DOMAIN flows : flows[i].pc = "stream"
    /\ spawned = 2

----------------------------------------------------------------------------
(* C17: no background thread appends to the log itself: every append made  *)
(* for a background operation is executed by the UI thread, so the number  *)
(* of _append_log calls executed on a background thread stays zero.        *)
C17_NoDirectAppend == direct_appends = 0

----------------------------------------------------------------------------
(* The log lines of one run of a primary worker *)

RunLine(w) == "Running: " \o join(" ", w.cmd)

ExitLines == {"Process exited with " \o str_rc(rc) : rc \in ExitCodes}

WorkerChildLines == {ChildLine(k) : k \in 1..(MaxWorkerOut + 1)}

(* The position of the last occurrence of line in buf, 0 when there is none *)
LastIndex(buf, line) ==
    LET ks == {k \in DOMAIN buf : buf[k] = line}
    IN  IF ks = {} THEN 0 ELSE CHOOSE k \in ks : \A j \in ks : j <= k

IsRunEvent(l) == l \in WorkerChildLines \cup ExitLines

(* What the log holds of the run of w after its 'Running:' line: the lines *)
(* of its child and the exit line, other lines left out                    *)
RunEvents(w) ==
    LET k == LastIndex(log_buffer, RunLine(w))
    IN  SelectSeq(SubSeq(log_buffer, k + 1, Len(log_buffer)), IsRunEvent)

Emitted(n) == [k \in 1..n |-> ChildLine(k)]

(* C18: for a worker whose child was started, the log holds its 'Running:' *)
(* line, after it the lines the child has emitted so far in the order of   *)
(* emission, and the 'Process exited with <code>' line after all of them   *)
(* once the child has exited; running is true all along, and it becomes    *)
(* false only by the last step of a worker, after its exit line.           *)
C18_RunOrder ==
    /\ [] (\A i \in DOMAIN workers :
             LET w == workers[i]
             IN  w.nspawn = 1 =>
                   /\ running
                   /\ LastIndex(log_buffer, RunLine(w)) > 0
                   /\ w.pc = "stream" => RunEvents(w) = Emitted(w.nout)
                   /\ w.pc = "finally" =>
                        \E l \in ExitLines :
                            RunEvents(w) = Emitted(w.nout) \o <<l>>)
    /\ [][(running /\ ~running') =>
            \E i \in DOMAIN workers :
                workers[i].pc = "finally" /\ W_Finally(i)]_vars

(* A child has emitted two lines and exited; the latch is not yet reset *)
C18_Witness ==
    \E i \in DOMAIN workers :
        /\ workers[i].pc = "finally" /\ workers[i].nspawn = 1
        /\ workers[i].nout >= 2
        /\ running

----------------------------------------------------------------------------
(* C19: an edit of the form made after a Run Selected request, while the   *)
(* worker has not yet built its command, changes nothing of what the       *)
(* worker will build: the command (executable and arguments) and whether   *)
(* there is one at all are fixed by the parameters taken at the request.   *)
C19_SnapshotOnly ==
    [][\A v \in InstNameValues : EditInstName(v) =>
         \A i \in DOMAIN workers :
             workers[i].pc = "build" =>
                 build_cmd(workers[i].action, workers[i].params,
                           form.inst_name, files)
                   = build_cmd(workers[i].action, workers[i].params,
                               form'.inst_name, files)]_vars

----------------------------------------------------------------------------
(* Every handler and both background threads, a worker and a dependency   *)
(* flow one after the other (SpecSelect)                                   *)

MaxSelectLog == 4

InitSelect ==
    InitWith(MaxSelectLog, {l \in ScriptsLayouts : l.files = {"scripts"}})

(* wl-copy and xclip in the same state, no pbcopy *)
SelectEnvs == {env \in ClipEnvs :
                 env.pbcopy = "absent" /\ env.wl_copy = env.xclip}

NextSelect ==
    \/ \E b \in {"build", "stop"} : PressMenu(b)
    \/ workers = <<>> /\ PressDeps
    \/ flows = <<>> /\ RunSelected
    \/ \E env \in SelectEnvs : CopyLog(env)
    \/ ToggleSection("section_python")
    \/ \E i \in DOMAIN workers : WorkerStep(i)
    \/ \E i \in DOMAIN flows : FlowStep(i)

SpecSelect == InitSelect /\ [][NextSelect]_vars

(* C20: the selected action changes only by a menu selection, to the       *)
(* action selected, and once set it is never cleared; Run Selected, Copy   *)
(* Log, a section toggle and every step of a worker (its completion        *)
(* included) or of a dependency flow leave it unchanged; Run Selected      *)
(* before any selection spawns no process, starts no worker and leaves     *)
(* running and both gates unchanged (it logs the no-selection message).    *)
C20_SelectionFrame ==
    /\ [][action' # action =>
            \E b \in Actions : PressMenu(b) /\ action' = b]_vars
    /\ [][action # "none" => action' # "none"]_vars
    /\ [][(\/ RunSelected
           \/ \E env \in ClipEnvs : CopyLog(env)
           \/ \E sec \in Sections : ToggleSection(sec)
           \/ \E i \in DOMAIN workers : WorkerStep(i)
           \/ \E i \in DOMAIN flows : FlowStep(i))
          => action' = action]_vars
    /\ [][(RunSelected /\ action = "none") =>
            /\ spawned' = spawned
            /\ workers' = workers
            /\ running' = running
            /\ elevate_pending' = elevate_pending
            /\ pkg_install_pending' = pkg_install_pending
            /\ log_buffer' = log_buffer \o <<NoActionMsg>>]_vars

(* Run Selected was pressed before any selection; then an action was       *)
(* selected, the log was copied, a section was opened and a worker ran to  *)
(* its end: the selection is still there                                   *)
C20_Witness ==
    /\ action = "build"
    /\ Contains(log_buffer, NoActionMsg)
    /\ workers = <<>> /\ ~running /\ spawned = 1
    /\ sections.section_python
    /\ exports # <<>>

----------------------------------------------------------------------------
(* The dependency flow after its initial check (SpecFlow) *)

(* C21: when the initial check exits with 0 the flow appends the           *)
(* satisfied message and ends: it starts no installer and no re-check, and *)
(* it leaves both confirmation gates as they are, whatever markers the     *)
(* check printed and whatever the toggles are.                             *)
C21_SuccessStops ==
    [][\A i \in DOMAIN flows :
         (flows[i].stage = "check" /\ F_ExitWith(i, 0)) =>
            /\ log_buffer' = log_buffer \o <<SatisfiedMsg>>
            /\ flows' = RemoveAt(flows, i)
            /\ spawned' = spawned
            /\ elevate_pending' = elevate_pending
            /\ pkg_install_pending' = pkg_install_pending]_vars

(* A check that printed every marker exited with 0 with both toggles set:  *)
(* the flow has ended after its one child                                  *)
C21_Witness ==
    /\ form.install_system /\ form.elevate
    /\ flows = <<>> /\ spawned = 1
    /\ \E k \in DOMAIN log_buffer :
         /\ k > 1
         /\ log_buffer[k] = SatisfiedMsg
         /\ log_buffer[k - 1] = LineOf(Markers)

----------------------------------------------------------------------------
(* The check reported missing binaries and nothing else *)
BinariesOnly(out) == out = {"Missing binaries"}

(* The flow i has ended by an exception that nothing caught *)
Raised(i) ==
    /\ flows' = RemoveAt(flows, i)
    /\ uncaught' = uncaught + 1
    /\ spawned' = spawned

GatesUnchanged ==
    /\ elevate_pending' = elevate_pending
    /\ pkg_install_pending' = pkg_install_pending

(* C22: after a failed check that reported only missing binaries, with the *)
(* system-deps toggle off the flow starts no process, appends the generic  *)
(* fallback message and ends; with the toggle on it goes on to the         *)
(* binaries installer, which it starts whatever the two gates are and      *)
(* without changing them, and it starts the re-check only when that        *)
(* installer has exited with 0 (a non-zero exit ends the flow with the     *)
(* failure message).                                                       *)
C22_BinariesBranch ==
    /\ [][\A i \in DOMAIN flows :
            (/\ flows[i].stage = "check" /\ BinariesOnly(flows[i].out)
             /\ F_ExitWith(i, 1)) =>
               /\ GatesUnchanged
               /\ spawned' = spawned
               /\ IF form.install_system
                  THEN /\ Len(flows') = Len(flows)
                       /\ flows'[i].pc = "read"
                       /\ flows'[i].branch = "binaries"
                  ELSE /\ flows' = RemoveAt(flows, i)
                       /\ log_buffer' = log_buffer \o <<FallbackMsg>>]_vars
    /\ [] (\A i \in DOMAIN flows :
             (flows[i].pc = "read" /\ flows[i].branch = "binaries")
                => ENABLED F_Read(i))
    /\ [][\A i \in DOMAIN flows :
            (/\ flows[i].pc = "read" /\ flows[i].branch = "binaries"
             /\ F_Read(i)) =>
               /\ GatesUnchanged
               /\ log_buffer' = log_buffer \o
                     <<"Running system install: "
                         \o join(" ", InstallerCmd("bin", form.elevate))>>
               /\ \/ Raised(i)
                  \/ /\ spawned' = spawned + 1
                     /\ flows'[i].pc = "stream"
                     /\ flows'[i].stage = "bin"]_vars
    /\ [][\A i \in DOMAIN flows : \A rc \in ExitCodes :
            (flows[i].stage = "bin" /\ F_ExitWith(i, rc)) =>
               /\ GatesUnchanged
               /\ IF rc = 0
                  THEN \/ Raised(i)
                       \/ /\ spawned' = spawned + 1
                          /\ flows'[i].stage = "recheck"
                  ELSE /\ spawned' = spawned
                       /\ flows' = RemoveAt(flows, i)]_vars

(* The binaries installer has exited with 0 and the re-check runs, while   *)
(* the package-installer gate is awaiting its confirmation                 *)
C22_Witness ==
    /\ pkg_install_pending
    /\ \E i \in DOMAIN flows :
         /\ flows[i].ran = <<"check", "bin", "recheck">>
         /\ flows[i].out = {"Missing binaries"}

----------------------------------------------------------------------------
(* Dependency flows side by side: every press of 'deps' starts a thread    *)
(* (SpecRace)                                                              *)

MaxRaceLog == 3

InitRace ==
    InitWith(MaxRaceLog, {l \in ScriptsLayouts : l.files = {"scripts"}})

(* The environment of SpecRace: a check reports a downloaded PKG or        *)
(* nothing, and every child can be launched                                *)
PkgOnly ==
    /\ \A j \in DOMAIN flows' : flows'[j].out \subseteq {"Found Multipass PKG"}
    /\ uncaught' = uncaught

NextRace ==
    \/ PressMenu("deps")
    \/ EditToggle("install_system")
    \/ \E i \in DOMAIN flows : FlowStep(i) /\ PkgOnly

SpecRace == InitRace /\ [][NextRace]_vars

(* C23: a flow starts the package installer only in a step that finds the  *)
(* package-installer gate awaiting confirmation and resets it, so that     *)
(* every run of the installer consumes a confirmation of its own.          *)
C23_OneShot ==
    [][\A i \in DOMAIN flows :
         (/\ flows[i].pc = "pkg_set"
          /\ F_PkgSet(i)
          /\ spawned' = spawned + 1) =>
            (pkg_install_pending /\ ~pkg_install_pending')]_vars

----------------------------------------------------------------------------
(* _append_log step by step (SpecThreads): the UI thread appends the       *)
(* 'Selected action' line of the 'deps' button and a flow thread appends   *)
(* its first line itself (line 443), each by list.append (line 394) and    *)
(* then the test of the cap and pop(0) (lines 396-397); the two threads    *)
(* interleave between these steps.  The buffer is first filled by whole    *)
(* appends of the UI thread; the rest of a flow, which appends through the *)
(* UI thread, is not followed here.                                        *)

MaxThreads == 2

(* lines 396-397 *)
buf_evict(buf) == IF Len(buf) > LogCap THEN Tail(buf) ELSE buf

ThreadsFrame == UNCHANGED <<form, running, elevate_pending,
                            pkg_install_pending, workers, spawned, uncaught,
                            limit, SCRIPTS_DIR, files, system, exports,
                            sections>>

(* lines 183-186 and 394: 'deps' is pressed, its line joins the buffer *)
U_Append ==
    /\ ui_pc = "idle"
    /\ Len(flows) < MaxThreads
    /\ Len(appended) + MaxOver >= LogCap
    /\ Len(appended) < LogCap + MaxOver
    /\ action' = "deps"
    /\ log_buffer' = Append(log_buffer, "Selected action: deps")
    /\ appended' = Append(appended, "Selected action: deps")
    /\ ui_pc' = "evict"
    /\ UNCHANGED <<flows, direct_appends>>
    /\ ThreadsFrame

(* lines 396-397, then 191-194: the cap is applied and the thread started *)
U_Evict ==
    /\ ui_pc = "evict"
    /\ log_buffer' = buf_evict(log_buffer)
    /\ flows' = Append(flows, NewFlow)
    /\ ui_pc' = "idle"
    /\ UNCHANGED <<action, appended, direct_appends>>
    /\ ThreadsFrame

(* lines 443 and 394, executed by the flow thread *)
T_Append(i) ==
    /\ flows[i].pc = "start"
    /\ log_buffer' = Append(log_buffer, "Starting dependency check...")
    /\ appended' = Append(appended, "Starting dependency check...")
    /\ flows' = [flows EXCEPT ![i].pc = "evict"]
    /\ direct_appends' = direct_appends + 1
    /\ UNCHANGED <<action, ui_pc>>
    /\ ThreadsFrame

(* lines 396-397, executed by the flow thread *)
T_Evict(i) ==
    /\ flows[i].pc = "evict"
    /\ log_buffer' = buf_evict(log_buffer)
    /\ flows' = RemoveAt(flows, i)
    /\ UNCHANGED <<action, appended, direct_appends, ui_pc>>
    /\ ThreadsFrame

InitThreads == InitLog

NextThreads ==
    \/ ui_pc = "idle" /\ flows = <<>> /\ AppendLog
    \/ U_Append
    \/ U_Evict
    \/ \E i \in DOMAIN flows : T_Append(i)
    \/ \E i \in DOMAIN flows : T_Evict(i)

SpecThreads == InitThreads /\ [][NextThreads]_vars

(* The buffer is a contiguous suffix of the lines appended so far and      *)
(* holds at least min(5000, number of lines appended) of them              *)
RetainedSuffix ==
    LET n == Len(appended)
        m == Len(log_buffer)
    IN  /\ m <= n
        /\ log_buffer = SubSeq(appended, n - m + 1, n)
        /\ m >= Min(n, LogCap)

(* C24: whenever the UI thread is between two handlers (where Copy Log     *)
(* reads the buffer), the buffer is a contiguous suffix of all the lines   *)
(* appended so far, of at most 5000 lines and of at least min(5000, lines  *)
(* appended), whatever the interleaving of the UI thread's and the flow    *)
(* threads' append and evict steps.                                        *)
C24_InterleavedCap ==
    ui_pc = "idle" => (Len(log_buffer) <= LogCap /\ RetainedSuffix)

----------------------------------------------------------------------------
(* The dependency flow under a fair scheduler, its children exiting        *)
(* (SpecFlowLive)                                                          *)

FlowFairness == WF_vars(\E i \in DOMAIN flows : FlowStep(i))

InitFlowLive ==
    InitWith(MaxFlowLog, {l \in ScriptsLayouts : l.files = {"scripts"}})

SpecFlowLive == InitFlowLive /\ [][NextFlow]_vars /\ FlowFairness

SystemInstallers == {"sys", "pkg", "bin"}

CountOf(ran, S) == Cardinality({k \in DOMAIN ran : ran[k] \in S})

(* C25: a flow starts at most four children: the check first, then at most *)
(* one system installer, at most one Python installer and at most one      *)
(* re-check, after which it starts nothing; when the re-check exits the    *)
(* flow ends, whatever the exit code, without starting another child; and  *)
(* every flow ends.                                                        *)
C25_FlowTerminates ==
    /\ [] (\A i \in DOMAIN flows :
             LET ran == flows[i].ran
             IN  /\ Len(ran) <= 4
                 /\ ran # <<>> => ran[1] = "check"
                 /\ CountOf(ran, {"check"}) <= 1
                 /\ CountOf(ran, SystemInstallers) <= 1
                 /\ CountOf(ran, {"py"}) <= 1
                 /\ CountOf(ran, {"recheck"}) <= 1
                 /\ \A k \in DOMAIN ran : ran[k] = "recheck" => k = Len(ran))
    /\ [][\A i \in DOMAIN flows : \A rc \in ExitCodes :
            (flows[i].stage = "recheck" /\ F_ExitWith(i, rc)) =>
               /\ flows' = RemoveAt(flows, i)
               /\ spawned' = spawned]_vars
    /\ (flows # <<>>) ~> (flows = <<>>)

(* A flow ran its four children, its re-check failed and it ended there *)
C25_Witness ==
    /\ flows = <<>>
    /\ spawned = 4
    /\ log_buffer # <<>>
    /\ log_buffer[Len(log_buffer)] = RecheckMsg("python", 1)

====
